---- MODULE Spec2Model ----
(***************************************************************************)
(* Model of src/main.py: the orders CSV -> JSON summary pipeline.          *)
(*                                                                         *)
(* Text is a sequence of one-character strings, so that str.strip,         *)
(* Decimal(str), sorted() and json.dumps are computed character by         *)
(* character.  A decimal.Decimal is a record [kind, coef, exp]: a finite   *)
(* value is coef * 10^exp with exp <= 0 (the exponent is kept, as Decimal  *)
(* keeps it: 1.5 + 1.5 is 3.0, not 3); kind "inf" carries its sign in      *)
(* coef; kind "nan" is a quiet NaN.  All inputs of the model keep every    *)
(* coefficient far below the 28 significant digits of the default decimal  *)
(* context, so no operation of the model is rounded by the context.        *)
(***************************************************************************)
EXTENDS Integers, Sequences, FiniteSets, TLC

VARIABLES
    pc,             \* position of main / load_orders
    inputExists,    \* input_path.exists()
    fieldnames,     \* header row of the input file (<<>>: empty file)
    rows,           \* data rows of the input file, each a sequence of cells
    prior,          \* the output path before the run: Absent or its content
    outFile,        \* the output path now: Absent or its content
    writes,         \* number of times the output path was opened for writing
    stdout,         \* what was printed
    i,              \* load_orders: number of data rows taken from the reader
    recs,           \* load_orders: its local list `records`
    records,        \* main: `records`
    total_revenue,  \* main: `total_revenue`
    best_selling,   \* main: `best_selling`
    result,         \* main: `result`
    error           \* the exception that ended the run, or NoError

vars == <<pc, inputExists, fieldnames, rows, prior, outFile, writes, stdout,
          i, recs, records, total_revenue, best_selling, result, error>>

----------------------------------------------------------------------------
(* Bounds of the model *)

MaxRows == 3

MaxAltRows == 2

----------------------------------------------------------------------------
(* Characters and strings *)

DigitChars == <<"0", "1", "2", "3", "4", "5", "6", "7", "8", "9">>

UpperChars == <<"A", "B", "C", "D", "E", "F", "G", "H", "I", "J", "K", "L", "M",
                "N", "O", "P", "Q", "R", "S", "T", "U", "V", "W", "X", "Y", "Z">>

LowerChars == <<"a", "b", "c", "d", "e", "f", "g", "h", "i", "j", "k", "l", "m",
                "n", "o", "p", "q", "r", "s", "t", "u", "v", "w", "x", "y", "z">>

IndexOf(seq, c) == CHOOSE k \in 1..Len(seq) : seq[k] = c

IsIn(seq, c) == \E k \in 1..Len(seq) : seq[k] = c

\* ord(c): the Unicode code point, which is what Python compares strings by
Ord(c) ==
    IF IsIn(DigitChars, c) THEN 47 + IndexOf(DigitChars, c)
    ELSE IF IsIn(UpperChars, c) THEN 64 + IndexOf(UpperChars, c)
    ELSE IF IsIn(LowerChars, c) THEN 96 + IndexOf(LowerChars, c)
    ELSE IF c = " " THEN 32
    ELSE IF c = "-" THEN 45
    ELSE IF c = "." THEN 46
    ELSE 0

\* s < t for Python str: lexicographic by code point, a proper prefix is smaller
RECURSIVE StrLess(_, _)
StrLess(s, t) ==
    IF t = <<>> THEN FALSE
    ELSE IF s = <<>> THEN TRUE
    ELSE IF Ord(Head(s)) # Ord(Head(t)) THEN Ord(Head(s)) < Ord(Head(t))
    ELSE StrLess(Tail(s), Tail(t))

IsSpace(c) == c = " "

RECURSIVE LStrip(_)
LStrip(s) == IF s # <<>> /\ IsSpace(Head(s)) THEN LStrip(Tail(s)) ELSE s

RECURSIVE RStrip(_)
RStrip(s) ==
    IF s # <<>> /\ IsSpace(s[Len(s)]) THEN RStrip(SubSeq(s, 1, Len(s) - 1)) ELSE s

\* str.strip()
Strip(s) == RStrip(LStrip(s))

RECURSIVE Join(_, _)
\* sep.join(parts)
Join(sep, parts) ==
    IF parts = <<>> THEN <<>>
    ELSE IF Len(parts) = 1 THEN parts[1]
    ELSE parts[1] \o sep \o Join(sep, Tail(parts))

----------------------------------------------------------------------------
(* decimal.Decimal *)

RECURSIVE Pow10(_)
Pow10(n) == IF n = 0 THEN 1 ELSE 10 * Pow10(n - 1)

Fin(c, e) == [kind |-> "fin", coef |-> c, exp |-> e]

Inf(sign) == [kind |-> "inf", coef |-> sign, exp |-> 0]

NaN == [kind |-> "nan", coef |-> 0, exp |-> 0]

\* the value a raising operation stands for: the exception and its argument
Raised(name, arg) ==
    [kind |-> "raise", coef |-> 0, exp |-> 0, exc |-> name, arg |-> arg]

IsRaised(d) == d.kind = "raise"

Min2(a, b) == IF a < b THEN a ELSE b

\* the coefficient of the finite d at the smaller exponent e
Scaled(d, e) == d.coef * Pow10(d.exp - e)

\* the integer of a digit string, most significant digit first
RECURSIVE DigitsValue(_)
DigitsValue(ds) ==
    IF ds = <<>> THEN 0
    ELSE 10 * DigitsValue(SubSeq(ds, 1, Len(ds) - 1))
         + (IndexOf(DigitChars, ds[Len(ds)]) - 1)

RECURSIVE Without(_, _)
Without(s, c) ==
    IF s = <<>> THEN <<>>
    ELSE IF Head(s) = c THEN Without(Tail(s), c)
    ELSE <<Head(s)>> \o Without(Tail(s), c)

\* digits after the decimal point of a numeric string
FracDigits(s) == IF IsIn(s, ".") THEN Len(s) - IndexOf(s, ".") ELSE 0

\* the numeric-string grammar of Decimal, restricted to digits and one point
IsNumeral(s) ==
    /\ \A k \in 1..Len(s) : IsIn(DigitChars, s[k]) \/ s[k] = "."
    /\ Len(s) - Len(Without(s, ".")) <= 1
    /\ Without(s, ".") # <<>>

\* Decimal(text) for an unsigned text
ParseUnsigned(s, sign) ==
    IF s = <<"I", "n", "f", "i", "n", "i", "t", "y">> THEN Inf(sign)
    ELSE IF s = <<"N", "a", "N">> THEN NaN
    ELSE IF IsNumeral(s)
        THEN Fin(sign * DigitsValue(Without(s, ".")), 0 - FracDigits(s))
    ELSE Raised("InvalidOperation", <<>>)

\* Decimal(text): surrounding whitespace is dropped, then an optional sign
ParseDecimal(text) ==
    LET s == Strip(text) IN
    IF s # <<>> /\ Head(s) = "-" THEN ParseUnsigned(Tail(s), -1)
    ELSE ParseUnsigned(s, 1)

\* to_decimal: any failure of Decimal() becomes a ValueError naming the value
to_decimal(value) ==
    LET d == ParseDecimal(value) IN
    IF IsRaised(d) THEN Raised("Invalid numeric value", value) ELSE d

\* d < 0 for Decimal: "yes", "no", or "raise" (comparing a NaN signals
\* InvalidOperation)
DecIsNegative(d) ==
    IF d.kind = "nan" THEN "raise"
    ELSE IF d.coef < 0 THEN "yes" ELSE "no"

\* a * b
DecMul(a, b) ==
    IF IsRaised(a) THEN a
    ELSE IF IsRaised(b) THEN b
    ELSE IF a.kind = "nan" \/ b.kind = "nan" THEN NaN
    ELSE IF a.kind = "inf" \/ b.kind = "inf"
        THEN IF a.coef = 0 \/ b.coef = 0 THEN Raised("InvalidOperation", <<>>)
             ELSE Inf(IF (a.coef < 0) = (b.coef < 0) THEN 1 ELSE -1)
    ELSE Fin(a.coef * b.coef, a.exp + b.exp)

\* a + b
DecAdd(a, b) ==
    IF IsRaised(a) THEN a
    ELSE IF IsRaised(b) THEN b
    ELSE IF a.kind = "nan" \/ b.kind = "nan" THEN NaN
    ELSE IF a.kind = "inf" /\ b.kind = "inf"
        THEN IF a.coef = b.coef THEN a ELSE Raised("InvalidOperation", <<>>)
    ELSE IF a.kind = "inf" THEN a
    ELSE IF b.kind = "inf" THEN b
    ELSE LET e == Min2(a.exp, b.exp) IN Fin(Scaled(a, e) + Scaled(b, e), e)

IsPosInf(d) == d.kind = "inf" /\ d.coef > 0

IsNegInf(d) == d.kind = "inf" /\ d.coef < 0

\* a < b for numbers a, b: numeric, whatever the exponents
DecLess(a, b) ==
    IF a.kind = "inf" \/ b.kind = "inf"
        THEN (IsNegInf(a) /\ ~IsNegInf(b)) \/ (IsPosInf(b) /\ ~IsPosInf(a))
    ELSE LET e == Min2(a.exp, b.exp) IN Scaled(a, e) < Scaled(b, e)

\* a == b for numbers a, b: numeric, so 3.0 == 3
DecEq(a, b) ==
    IF a.kind = "inf" \/ b.kind = "inf" THEN a = b
    ELSE LET e == Min2(a.exp, b.exp) IN Scaled(a, e) = Scaled(b, e)

Abs(n) == IF n < 0 THEN 0 - n ELSE n

Sign(n) == IF n < 0 THEN -1 ELSE 1

\* d.quantize(Decimal("0.01"), rounding=ROUND_HALF_UP): exactly 2 fractional
\* digits; a dropped half rounds away from zero; an infinity cannot be quantized
QuantizeHalfUp(d) ==
    IF IsRaised(d) THEN d
    ELSE IF d.kind = "nan" THEN NaN
    ELSE IF d.kind = "inf" THEN Raised("InvalidOperation", <<>>)
    ELSE IF d.exp >= -2 THEN Fin(d.coef * Pow10(d.exp + 2), -2)
    ELSE LET div == Pow10(0 - 2 - d.exp) IN
         Fin(Sign(d.coef) * ((Abs(d.coef) + div \div 2) \div div), -2)

\* d.to_integral_value(): the nearest integer, ties to even (context rounding)
ToIntegralValue(d) ==
    IF d.kind # "fin" \/ d.exp >= 0 THEN d
    ELSE LET div == Pow10(0 - d.exp)
             q == Abs(d.coef) \div div
             r == Abs(d.coef) % div
             up == 2 * r > div \/ (2 * r = div /\ q % 2 = 1)
         IN  Fin(Sign(d.coef) * (IF up THEN q + 1 ELSE q), 0)

----------------------------------------------------------------------------
(* Python values of the result *)

PyInt(n) == [type |-> "int", coef |-> n, exp |-> 0]

\* stands for a conversion that raised
PyRaised == [type |-> "raise", coef |-> 0, exp |-> 0]

RECURSIVE Normal(_, _)
\* the number coef * 10^exp without trailing fractional zeros
Normal(c, e) ==
    IF e < 0 /\ c % 10 = 0 THEN Normal(c \div 10, e + 1)
    ELSE [type |-> "float", coef |-> c, exp |-> e]

\* float(d) of a finite Decimal: the number alone, the exponent is lost
PyFloat(d) == Normal(d.coef, d.exp)

\* int(d): truncation toward zero; OverflowError for an infinity
PyIntOf(d) ==
    IF d.kind = "inf" THEN PyRaised
    ELSE PyInt(Sign(d.coef) * (Abs(d.coef) \div Pow10(0 - d.exp)))

PyNone == [none |-> TRUE, s |-> <<>>]

PyStr(s) == [none |-> FALSE, s |-> s]

----------------------------------------------------------------------------
(* Aggregator *)

RECURSIVE SumRevenue(_, _)
\* the loop of calculate_total_revenue: total += quantity * price
SumRevenue(rs, total) ==
    IF rs = <<>> THEN total
    ELSE SumRevenue(Tail(rs), DecAdd(total, DecMul(Head(rs).quantity, Head(rs).price)))

RECURSIVE SumRoundedRows(_, _)
\* a variant that rounds the revenue of each row before adding it
SumRoundedRows(rs, total) ==
    IF rs = <<>> THEN total
    ELSE SumRoundedRows(Tail(rs),
            DecAdd(total, QuantizeHalfUp(DecMul(Head(rs).quantity, Head(rs).price))))

calculate_total_revenue_rowwise(rs) == QuantizeHalfUp(SumRoundedRows(rs, Fin(0, 0)))

calculate_total_revenue(rs) == QuantizeHalfUp(SumRevenue(rs, Fin(0, 0)))

HasKey(d, k) == \E n \in 1..Len(d) : d[n].sku = k

\* d[k] += q on a defaultdict(Decimal); the dict keeps insertion order
DictAdd(d, k, q) ==
    IF HasKey(d, k)
        THEN [n \in 1..Len(d) |->
                IF d[n].sku = k THEN [sku |-> k, qty |-> DecAdd(d[n].qty, q)] ELSE d[n]]
    ELSE Append(d, [sku |-> k, qty |-> DecAdd(Fin(0, 0), q)])

RECURSIVE GroupBySku(_, _)
\* the loop of find_best_selling_sku: qty_by_sku[r["sku"]] += r["quantity"]
GroupBySku(rs, d) ==
    IF rs = <<>> THEN d
    ELSE GroupBySku(Tail(rs), DictAdd(d, Head(rs).sku, Head(rs).quantity))

RECURSIVE InsertBySku(_, _)
InsertBySku(sorted, item) ==
    IF sorted = <<>> THEN <<item>>
    ELSE IF StrLess(item.sku, Head(sorted).sku) THEN <<item>> \o sorted
    ELSE <<Head(sorted)>> \o InsertBySku(Tail(sorted), item)

RECURSIVE SortedBySku(_)
\* sorted(qty_by_sku.items(), key=lambda x: x[0])
SortedBySku(items) ==
    IF items = <<>> THEN <<>>
    ELSE InsertBySku(SortedBySku(SubSeq(items, 1, Len(items) - 1)), items[Len(items)])

\* a variant that lets a later item of the same key replace the best
KeyGreaterOrEqual(cand, best) == ~DecLess(cand.qty, best.qty)

\* the comparison max() makes: is the candidate's key greater than the best's
KeyGreater(cand, best) == DecLess(best.qty, cand.qty)

RECURSIVE MaxFrom(_, _)
\* max(items, key=lambda x: x[1]): the first item whose key no later one exceeds
MaxFrom(items, best) ==
    IF items = <<>> THEN best
    ELSE MaxFrom(Tail(items), IF KeyGreater(Head(items), best) THEN Head(items) ELSE best)

MaxByQty(items) == MaxFrom(Tail(items), Head(items))

\* a variant that takes a Decimal for whole when it has no fractional digits
QtyOutByExponent(total_qty) ==
    IF total_qty.exp = 0 THEN PyIntOf(total_qty) ELSE PyFloat(total_qty)

\* int(total_qty) if total_qty == total_qty.to_integral_value() else float(total_qty)
QtyOut(total_qty) ==
    IF DecEq(total_qty, ToIntegralValue(total_qty)) THEN PyIntOf(total_qty)
    ELSE PyFloat(total_qty)

\* a variant whose emptiness test is on the best quantity, so that a best
\* quantity of zero is reported as no SKU
find_best_selling_sku_falsy(rs) ==
    LET qty_by_sku == GroupBySku(rs, <<>>) IN
    IF qty_by_sku = <<>> \/ MaxByQty(SortedBySku(qty_by_sku)).qty.coef = 0
        THEN [sku |-> PyNone, total_quantity |-> PyInt(0)]
    ELSE LET best == MaxByQty(SortedBySku(qty_by_sku)) IN
         [sku |-> PyStr(best.sku), total_quantity |-> QtyOut(best.qty)]

find_best_selling_sku(rs) ==
    LET qty_by_sku == GroupBySku(rs, <<>>) IN
    IF qty_by_sku = <<>> THEN [sku |-> PyNone, total_quantity |-> PyInt(0)]
    ELSE LET best == MaxByQty(SortedBySku(qty_by_sku)) IN
         [sku |-> PyStr(best.sku), total_quantity |-> QtyOut(best.qty)]

\* the Decimal -> float conversion of total_revenue
RevenueOut(total) == PyFloat(total)

build_output(total, best) ==
    [total_revenue |-> RevenueOut(total),
     best_selling_sku |-> [sku |-> best.sku, total_quantity |-> best.total_quantity]]

----------------------------------------------------------------------------
(* json.dumps(result, ensure_ascii=False, indent=2) *)

RECURSIVE NatRepr(_)
\* repr of a natural number
NatRepr(n) ==
    IF n < 10 THEN <<DigitChars[n + 1]>>
    ELSE NatRepr(n \div 10) \o <<DigitChars[(n % 10) + 1]>>

RECURSIVE ZeroPad(_, _)
ZeroPad(s, width) == IF Len(s) >= width THEN s ELSE ZeroPad(<<"0">> \o s, width)

\* the JSON text of an int or of a float (repr: at least one fractional digit)
NumberRepr(v) ==
    LET sign == IF v.coef < 0 THEN <<"-">> ELSE <<>>
        mag  == Abs(v.coef)
        div  == Pow10(0 - v.exp)
    IN  IF v.type = "int" THEN sign \o NatRepr(mag)
        ELSE IF v.exp = 0 THEN sign \o NatRepr(mag) \o <<".", "0">>
        ELSE sign \o NatRepr(mag \div div) \o <<".">>
             \o ZeroPad(NatRepr(mag % div), 0 - v.exp)

\* the JSON text of a str or of None
SkuRepr(v) == IF v.none THEN <<"null">> ELSE <<"\"">> \o v.s \o <<"\"">>

JsonDumps(r) ==
    <<"{", "\n", "  ", "\"total_revenue\": ">> \o NumberRepr(r.total_revenue)
    \o <<",", "\n", "  ", "\"best_selling_sku\": ", "{", "\n",
         "    ", "\"sku\": ">> \o SkuRepr(r.best_selling_sku.sku)
    \o <<",", "\n", "    ", "\"total_quantity\": ">>
    \o NumberRepr(r.best_selling_sku.total_quantity)
    \o <<"\n", "  ", "}", "\n", "}">>

\* print(text): the text and a newline
Printed(text) == text \o <<"\n">>

----------------------------------------------------------------------------
(* Record Loader *)

sku == <<"s", "k", "u">>

quantity == <<"q", "u", "a", "n", "t", "i", "t", "y">>

price == <<"p", "r", "i", "c", "e">>

Required == {sku, quantity, price}

SeqToSet(seq) == {seq[k] : k \in 1..Len(seq)}

\* row[name] of the dict csv.DictReader builds: the cell under that header
\* (the last such header when it is repeated)
Cell(names, cells, name) ==
    cells[CHOOSE k \in 1..Len(names) :
            /\ names[k] = name
            /\ \A m \in (k + 1)..Len(names) : names[m] # name]

\* required - set(reader.fieldnames or [])
Missing(names) == Required \ SeqToSet(names)

RECURSIVE SortedStrs(_)
\* sorted(set of str)
SortedStrs(S) ==
    IF S = {} THEN <<>>
    ELSE LET least == CHOOSE x \in S : \A y \in S \ {x} : StrLess(x, y)
         IN  <<least>> \o SortedStrs(S \ {least})

RECURSIVE Reverse(_)
Reverse(seq) == IF seq = <<>> THEN <<>> ELSE Reverse(Tail(seq)) \o <<Head(seq)>>

\* a variant that joins the missing names without sorting them: one of the
\* orders iterating the set can give
MissingTextUnsorted(names) == Join(<<",", " ">>, Reverse(SortedStrs(Missing(names))))

\* ', '.join(sorted(missing))
MissingText(names) == Join(<<",", " ">>, SortedStrs(Missing(names)))

NoError == [kind |-> "none", row |-> 0, reason |-> "", arg |-> <<>>]

Error(kind, row, reason, arg) ==
    [kind |-> kind, row |-> row, reason |-> reason, arg |-> arg]

\* is a value of the row below zero: qty < 0 or price < 0, left to right
NegativeCheck(qty, prc) ==
    IF DecIsNegative(qty) = "raise" THEN "raise"
    ELSE IF DecIsNegative(qty) = "yes" THEN "yes"
    ELSE DecIsNegative(prc)

\* the body of the loop of load_orders for one row: the record, or the reason
\* the row is invalid
ParseRow(names, cells) ==
    LET s   == Strip(Cell(names, cells, sku))
        qty == to_decimal(Cell(names, cells, quantity))
        prc == to_decimal(Cell(names, cells, price))
    IN  IF IsRaised(qty) THEN [ok |-> FALSE, reason |-> qty.exc, arg |-> qty.arg]
        ELSE IF IsRaised(prc) THEN [ok |-> FALSE, reason |-> prc.exc, arg |-> prc.arg]
        ELSE IF NegativeCheck(qty, prc) = "raise"
            THEN [ok |-> FALSE, reason |-> "InvalidOperation", arg |-> <<>>]
        ELSE IF NegativeCheck(qty, prc) = "yes"
            THEN [ok |-> FALSE, reason |-> "Negative values are not allowed.",
                  arg |-> <<>>]
        ELSE [ok |-> TRUE, rec |-> [sku |-> s, quantity |-> qty, price |-> prc]]

----------------------------------------------------------------------------
(* Input files *)

Skus == {<<"A">>, <<"B">>}

Quantities == {<<"1", ".", "5">>, <<"3">>}

\* a data row before it is laid out under a header: <<sku, quantity, price>>
ValidRows ==
    (Skus \X Quantities \X {<<"0", ".", "0", "0", "5">>})
    \cup {<< <<"A">>, <<"1", ".", "5">>, <<"1", ".", "0", "0">> >>,
          << <<"B">>, <<"3">>, <<"1", ".", "0", "0">> >>,
          << <<" ", "A", " ">>, <<"2", ".", "0">>, <<"1", "0", ".", "0", "0", "5">> >>,
          << <<"B">>, <<"0">>, <<"1", ".", "0", "0">> >>,
          << <<" ">>, <<"3">>, <<"1", ".", "0", "0">> >>,
          << <<"B">>, <<"I", "n", "f", "i", "n", "i", "t", "y">>, <<"1", ".", "0", "0">> >>}

InvalidRows ==
    {<< <<"A">>, <<"-", "1">>, <<"1", ".", "0", "0">> >>,
     << <<"B">>, <<"3">>, <<"-", "0", ".", "0", "0", "5">> >>,
     << <<"A">>, <<"x">>, <<"1", ".", "0", "0">> >>,
     << <<"B">>, <<"3">>, <<>> >>,
     << <<"A">>, <<"N", "a", "N">>, <<"1", ".", "0", "0">> >>}

RowChoices == ValidRows \cup InvalidRows

\* what the extra column holds: a text that no number column would accept
Notes == {<<"-", "1">>}

note == <<"n", "o", "t", "e">>

amount == <<"a", "m", "o", "u", "n", "t">>

cost == <<"c", "o", "s", "t">>

StdHeader == <<sku, quantity, price>>

AltHeaders ==
    {<<price, note, sku, quantity>>, <<sku, amount, cost>>, <<quantity, note>>}

\* the cells of the row r under the header names, the extra column holding n
Layout(names, r, n) ==
    [k \in 1..Len(names) |->
        IF names[k] = sku THEN r[1]
        ELSE IF names[k] \in {quantity, amount} THEN r[2]
        ELSE IF names[k] \in {price, cost} THEN r[3]
        ELSE n]

SeqsUpTo(S, n) == UNION {[1..m -> S] : m \in 0..n}

\* the input files: [fieldnames, rows]; an empty file has neither
InputFiles ==
    {[fieldnames |-> StdHeader,
      rows |-> [k \in 1..Len(rs) |-> Layout(StdHeader, rs[k], <<>>)]] :
        rs \in SeqsUpTo(RowChoices, MaxRows)}
    \cup
    {[fieldnames |-> h,
      rows |-> [k \in 1..Len(rs) |-> Layout(h, rs[k][1], rs[k][2])]] :
        h \in AltHeaders, rs \in SeqsUpTo(RowChoices \X Notes, MaxAltRows)}
    \cup
    {[fieldnames |-> <<>>, rows |-> <<>>]}

\* a path that does not exist has no content: the model gives it the content
\* of the empty file, which nothing reads

Absent == <<"absent">>

OldContent == <<"old">>

\* a variable of main not assigned yet
Unset == [unset |-> TRUE]

\* `records` of main not assigned yet
UnsetList == <<Unset>>

----------------------------------------------------------------------------
(* main *)

Init ==
    /\ pc = "start"
    /\ \E f \in InputFiles :
        /\ fieldnames = f.fieldnames
        /\ rows = f.rows
    /\ inputExists \in (IF fieldnames = <<>> THEN BOOLEAN ELSE {TRUE})
    /\ prior \in {Absent, OldContent}
    /\ outFile = prior
    /\ writes = 0
    /\ stdout = <<>>
    /\ i = 0
    /\ recs = <<>>
    /\ records = UnsetList
    /\ total_revenue = Unset
    /\ best_selling = Unset
    /\ result = Unset
    /\ error = NoError

Fail(e) ==
    /\ pc' = "error"
    /\ error' = e

\* a variant that opens the output path for writing before anything is read
CheckInputOpeningOutput ==
    /\ pc = "start"
    /\ IF inputExists
        THEN pc' = "load_header" /\ UNCHANGED error
        ELSE Fail(Error("FileNotFoundError", 0, "", <<>>))
    /\ outFile' = <<>>
    /\ UNCHANGED <<inputExists, fieldnames, rows, prior, writes, stdout,
                   i, recs, records, total_revenue, best_selling, result>>

\* main: if not input_path.exists(): raise FileNotFoundError
CheckInput ==
    /\ pc = "start"
    /\ IF inputExists
        THEN pc' = "load_header" /\ UNCHANGED error
        ELSE Fail(Error("FileNotFoundError", 0, "", <<>>))
    /\ UNCHANGED <<inputExists, fieldnames, rows, prior, outFile, writes, stdout,
                   i, recs, records, total_revenue, best_selling, result>>

\* load_orders: open the file, read the header, check the required columns
LoadHeader ==
    /\ pc = "load_header"
    /\ IF Missing(fieldnames) # {}
        THEN Fail(Error("Missing required CSV columns", 0, "", MissingText(fieldnames)))
        ELSE pc' = "load_rows" /\ UNCHANGED error
    /\ recs' = <<>>
    /\ i' = 0
    /\ UNCHANGED <<inputExists, fieldnames, rows, prior, outFile, writes, stdout,
                   records, total_revenue, best_selling, result>>

\* a variant that counts the rows from 0
LoadRowZeroBased ==
    /\ pc = "load_rows"
    /\ i < Len(rows)
    /\ i' = i + 1
    /\ LET r == ParseRow(fieldnames, rows[i + 1]) IN
        IF r.ok
            THEN recs' = Append(recs, r.rec) /\ UNCHANGED <<pc, error>>
            ELSE Fail(Error("Row invalid", i, r.reason, r.arg)) /\ UNCHANGED recs
    /\ UNCHANGED <<inputExists, fieldnames, rows, prior, outFile, writes, stdout,
                   records, total_revenue, best_selling, result>>

\* a variant that puts each record in front of the list
LoadRowPrepending ==
    /\ pc = "load_rows"
    /\ i < Len(rows)
    /\ i' = i + 1
    /\ LET r == ParseRow(fieldnames, rows[i + 1]) IN
        IF r.ok
            THEN recs' = <<r.rec>> \o recs /\ UNCHANGED <<pc, error>>
            ELSE Fail(Error("Row invalid", i + 1, r.reason, r.arg)) /\ UNCHANGED recs
    /\ UNCHANGED <<inputExists, fieldnames, rows, prior, outFile, writes, stdout,
                   records, total_revenue, best_selling, result>>

\* load_orders: one iteration of the loop over the reader
LoadRow ==
    /\ pc = "load_rows"
    /\ i < Len(rows)
    /\ i' = i + 1
    /\ LET r == ParseRow(fieldnames, rows[i + 1]) IN
        IF r.ok
            THEN recs' = Append(recs, r.rec) /\ UNCHANGED <<pc, error>>
            ELSE Fail(Error("Row invalid", i + 1, r.reason, r.arg)) /\ UNCHANGED recs
    /\ UNCHANGED <<inputExists, fieldnames, rows, prior, outFile, writes, stdout,
                   records, total_revenue, best_selling, result>>

\* load_orders: the reader is exhausted, return records (main: step 1 done)
LoadReturn ==
    /\ pc = "load_rows"
    /\ i = Len(rows)
    /\ records' = recs
    /\ pc' = "revenue"
    /\ UNCHANGED <<inputExists, fieldnames, rows, prior, outFile, writes, stdout,
                   i, recs, total_revenue, best_selling, result, error>>

\* main: step 2
Revenue ==
    /\ pc = "revenue"
    /\ LET t == calculate_total_revenue(records) IN
        IF IsRaised(t)
            THEN Fail(Error(t.exc, 0, "", <<>>)) /\ UNCHANGED total_revenue
            ELSE total_revenue' = t /\ pc' = "best" /\ UNCHANGED error
    /\ UNCHANGED <<inputExists, fieldnames, rows, prior, outFile, writes, stdout,
                   i, recs, records, best_selling, result>>

\* main: step 3
Best ==
    /\ pc = "best"
    /\ LET b == find_best_selling_sku(records) IN
        IF b.total_quantity.type = "raise"
            THEN Fail(Error("OverflowError", 0, "", <<>>)) /\ UNCHANGED best_selling
            ELSE best_selling' = b /\ pc' = "build" /\ UNCHANGED error
    /\ UNCHANGED <<inputExists, fieldnames, rows, prior, outFile, writes, stdout,
                   i, recs, records, total_revenue, result>>

\* main: step 4
Build ==
    /\ pc = "build"
    /\ result' = build_output(total_revenue, best_selling)
    /\ pc' = "write"
    /\ UNCHANGED <<inputExists, fieldnames, rows, prior, outFile, writes, stdout,
                   i, recs, records, total_revenue, best_selling, error>>

\* main: open(output_path, "w") and json.dump(result, f, ...)
WriteFile ==
    /\ pc = "write"
    /\ outFile' = JsonDumps(result)
    /\ writes' = writes + 1
    /\ pc' = "print"
    /\ UNCHANGED <<inputExists, fieldnames, rows, prior, stdout,
                   i, recs, records, total_revenue, best_selling, result, error>>

IsLayout(piece) == piece \in {"\n", "  ", "    "}

IsText(piece) == ~IsLayout(piece)

\* a variant that prints the document without indent=2
PrintResultCompact ==
    /\ pc = "print"
    /\ stdout' = stdout \o Printed(SelectSeq(JsonDumps(result), IsText))
    /\ pc' = "done"
    /\ UNCHANGED <<inputExists, fieldnames, rows, prior, outFile, writes,
                   i, recs, records, total_revenue, best_selling, result, error>>

\* main: print(json.dumps(result, ...))
PrintResult ==
    /\ pc = "print"
    /\ stdout' = stdout \o Printed(JsonDumps(result))
    /\ pc' = "done"
    /\ UNCHANGED <<inputExists, fieldnames, rows, prior, outFile, writes,
                   i, recs, records, total_revenue, best_selling, result, error>>

Next ==
    \/ CheckInput
    \/ LoadHeader
    \/ LoadRow
    \/ LoadReturn
    \/ Revenue
    \/ Best
    \/ Build
    \/ WriteFile
    \/ PrintResult

Spec == Init /\ [][Next]_vars

----------------------------------------------------------------------------
(* Reference values, computed in fixed-point integers: quantities of the   *)
(* inputs have at most 1 fractional digit and prices at most 3, so a       *)
(* quantity is a whole number of tenths, a price of thousandths and a      *)
(* revenue of ten-thousandths.                                             *)

Tenths(d) == d.coef * Pow10(1 + d.exp)

Thousandths(d) == d.coef * Pow10(3 + d.exp)

RECURSIVE ExactRevenue(_)
\* the exact sum of quantity * price, in ten-thousandths
ExactRevenue(rs) ==
    IF rs = <<>> THEN 0
    ELSE Tenths(Head(rs).quantity) * Thousandths(Head(rs).price) + ExactRevenue(Tail(rs))

\* ten-thousandths to cents, a half rounding up
HalfUpCents(n) == (n + 50) \div 100

RECURSIVE RowwiseCents(_)
\* the sum of the revenues of the rows, each rounded to cents on its own
RowwiseCents(rs) ==
    IF rs = <<>> THEN 0
    ELSE HalfUpCents(Tenths(Head(rs).quantity) * Thousandths(Head(rs).price))
         + RowwiseCents(Tail(rs))

RECURSIVE SkuTenths(_, _)
\* the summed quantity of the SKU s, in tenths
SkuTenths(rs, s) ==
    IF rs = <<>> THEN 0
    ELSE (IF Head(rs).sku = s THEN Tenths(Head(rs).quantity) ELSE 0)
         + SkuTenths(Tail(rs), s)

SkusOf(rs) == {rs[k].sku : k \in 1..Len(rs)}

AfterRevenue == pc \in {"best", "build", "write", "print", "done"}

AfterBest == pc \in {"build", "write", "print", "done"}

AfterBuild == pc \in {"write", "print", "done"}

----------------------------------------------------------------------------
(* Claims *)

\* C1: whenever calculate_total_revenue has returned, total_revenue is the
\* exact sum of quantity * price over all records, rounded once, after the
\* summation, half-up to exactly 2 fractional digits.
C1_RevenueRoundedOnce ==
    AfterRevenue =>
        total_revenue = Fin(HalfUpCents(ExactRevenue(records)), -2)

\* C1 witness: revenue was computed for two or more records whose row-by-row
\* rounding would give another total, and for which the half decides the cent.
C1_Witness ==
    /\ pc = "best"
    /\ Len(records) >= 2
    /\ RowwiseCents(records) # total_revenue.coef
    /\ ExactRevenue(records) % 100 = 50

\* C2: for a non-empty record sequence the SKU find_best_selling_sku returns
\* has a summed quantity >= that of every SKU, and no SKU with the same summed
\* quantity is lexicographically smaller, whatever the order of the rows.
C2_BestSkuMaxThenSmallest ==
    (AfterBest /\ records # <<>>) =>
        /\ ~best_selling.sku.none
        /\ best_selling.sku.s \in SkusOf(records)
        /\ \A t \in SkusOf(records) :
            /\ SkuTenths(records, t) <= SkuTenths(records, best_selling.sku.s)
            /\ SkuTenths(records, t) = SkuTenths(records, best_selling.sku.s)
                => ~StrLess(t, best_selling.sku.s)

\* C2 witness: B comes first in the input, A reaches the same maximum only as
\* the sum of two rows, and A is returned.
C2_Witness ==
    /\ pc = "build"
    /\ Len(records) = 3
    /\ records[1].sku = <<"B">>
    /\ SkuTenths(records, <<"A">>) = SkuTenths(records, <<"B">>)
    /\ \A k \in 1..3 : Tenths(records[k].quantity) < SkuTenths(records, <<"A">>)
        \/ records[k].sku = <<"B">>
    /\ best_selling.sku.s = <<"A">>

\* C3: a run that ended in an error has not touched the output path: it was
\* never opened for writing, it holds what it held before (or is still
\* absent), nothing was printed, and the run stays ended; the output path is
\* opened only by a run that got through all stages.
C3_NoOutputOnError ==
    /\ pc = "error" =>
        /\ outFile = prior
        /\ writes = 0
        /\ stdout = <<>>
        /\ error # NoError
        /\ ~ENABLED Next
    /\ (~inputExists /\ pc # "start") => pc = "error"
    /\ (writes > 0 \/ outFile # prior) => pc \in {"print", "done"}

\* C3 witness: the load succeeded, the aggregation failed, and the output path
\* still holds its old content.
C3_Witness ==
    /\ pc = "error"
    /\ error.kind = "InvalidOperation"
    /\ records # UnsetList
    /\ prior = OldContent
    /\ outFile = OldContent

\* the number texts of the inputs that are no number (unparsable, empty, NaN)
\* or are negative
BadNumberTexts ==
    {<<"-", "1">>, <<"-", "0", ".", "0", "0", "5">>, <<"x">>, <<>>, <<"N", "a", "N">>}

InfinityText == <<"I", "n", "f", "i", "n", "i", "t", "y">>

HeaderOk == inputExists /\ Required \subseteq SeqToSet(fieldnames)

ColumnOf(name) == CHOOSE k \in 1..Len(fieldnames) : fieldnames[k] = name

RowIsBad(k) ==
    \/ rows[k][ColumnOf(quantity)] \in BadNumberTexts
    \/ rows[k][ColumnOf(price)] \in BadNumberTexts

BadRowNumbers == {k \in 1..Len(rows) : RowIsBad(k)}

FirstBadRow == CHOOSE k \in BadRowNumbers : \A m \in BadRowNumbers : k <= m

InHeader(name) == name \in SeqToSet(fieldnames)

NotInHeader(name) == ~InHeader(name)

\* the names of the missing required columns in alphabetical order, joined
ExpectedMissingText == Join(<<",", " ">>, SelectSeq(<<price, quantity, sku>>, NotInHeader))

\* C5: when a required column is absent from the header, load_orders fails
\* before reading any data row, and the error names exactly the missing
\* required columns in alphabetical order; a header holding all three never
\* gives this error, whatever else it holds.
C5_MissingColumnsNamedSorted ==
    inputExists =>
        /\ ~(Required \subseteq SeqToSet(fieldnames)) =>
            /\ pc \in {"start", "load_header", "error"}
            /\ pc = "error" =>
                /\ error.kind = "Missing required CSV columns"
                /\ error.arg = ExpectedMissingText
                /\ i = 0
                /\ recs = <<>>
        /\ Required \subseteq SeqToSet(fieldnames) =>
            error.kind # "Missing required CSV columns"

\* C5 witness: header sku,amount,cost with an invalid data row: the error
\* names "price, quantity".
C5_Witness ==
    /\ pc = "error"
    /\ fieldnames = <<sku, amount, cost>>
    /\ Len(rows) >= 1
    /\ rows[1][2] \in BadNumberTexts
    /\ error.arg = price \o <<",", " ">> \o quantity

\* C6: every record load_orders returns has quantity >= 0, price >= 0 and a
\* non-empty trimmed sku (a row with a blank sku aborts the load).
C6_RecordsValid ==
    records # UnsetList =>
        \A k \in 1..Len(records) :
            /\ records[k].sku # <<>>
            /\ DecIsNegative(records[k].quantity) = "no"
            /\ DecIsNegative(records[k].price) = "no"

ZeroFloat == [type |-> "float", coef |-> 0, exp |-> 0]

EmptyResult ==
    [total_revenue |-> ZeroFloat,
     best_selling_sku |-> [sku |-> PyNone, total_quantity |-> PyInt(0)]]

EmptyDocument ==
    <<"{", "\n", "  ", "\"total_revenue\": ", "0", ".", "0", ",", "\n",
      "  ", "\"best_selling_sku\": ", "{", "\n",
      "    ", "\"sku\": ", "null", ",", "\n",
      "    ", "\"total_quantity\": ", "0", "\n", "  ", "}", "\n", "}">>

\* C7: a valid header with zero data rows is no error: total revenue is 0.00,
\* the sku is null and total_quantity is the integer 0; with one or more
\* records the sku is never null, also when every quantity is zero.
C7_EmptyInput ==
    /\ (HeaderOk /\ rows = <<>>) =>
        /\ pc # "error"
        /\ AfterRevenue => total_revenue = Fin(0, -2)
        /\ AfterBest => best_selling = [sku |-> PyNone, total_quantity |-> PyInt(0)]
        /\ AfterBuild => result = EmptyResult
        /\ pc \in {"print", "done"} => outFile = EmptyDocument
    /\ (AfterBuild /\ records # <<>>) => ~result.best_selling_sku.sku.none

\* C7 witness: the run on a header-only file is done and wrote the empty result.
C7_Witness ==
    /\ pc = "done"
    /\ fieldnames = StdHeader
    /\ rows = <<>>
    /\ result.best_selling_sku.sku.none
    /\ outFile = EmptyDocument

\* C8: total_quantity of a non-empty result is the summed quantity of the
\* returned SKU, an int exactly when that sum is a whole number and a float
\* otherwise, and build_output passes sku and total_quantity on unchanged.
C8_WholeQuantityIsInt ==
    (AfterBest /\ records # <<>>) =>
        LET sum == SkuTenths(records, best_selling.sku.s)
            out == best_selling.total_quantity
        IN  /\ sum % 10 = 0 => out = PyInt(sum \div 10)
            /\ sum % 10 # 0 =>
                /\ out.type = "float"
                /\ out.exp = -1
                /\ out.coef = sum
            /\ AfterBuild =>
                /\ result.best_selling_sku.sku = best_selling.sku
                /\ result.best_selling_sku.total_quantity = out

\* C8 witness: 1.5 + 1.5 is reported as the integer 3.
C8_Witness ==
    /\ pc = "done"
    /\ Len(records) = 2
    /\ \A k \in 1..2 : records[k].sku = <<"A">> /\ records[k].quantity = Fin(15, -1)
    /\ result.best_selling_sku.total_quantity = PyInt(3)

\* an existing input whose header has the required columns and whose rows all
\* hold non-negative finite numbers
ValidInput ==
    /\ HeaderOk
    /\ \A k \in 1..Len(rows) :
        /\ ~RowIsBad(k)
        /\ rows[k][ColumnOf(quantity)] # InfinityText
        /\ rows[k][ColumnOf(price)] # InfinityText

StageOrder ==
    {<<"start", "load_header">>, <<"load_header", "load_rows">>,
     <<"load_rows", "revenue">>, <<"revenue", "best">>, <<"best", "build">>,
     <<"build", "write">>, <<"write", "print">>, <<"print", "done">>}

C9_StagesInOrder ==
    /\ total_revenue # Unset => records # UnsetList
    /\ best_selling # Unset => total_revenue # Unset
    /\ result # Unset => best_selling # Unset
    /\ writes > 0 => (result # Unset /\ writes = 1 /\ outFile = JsonDumps(result))
    /\ stdout # <<>> => writes = 1
    /\ pc = "done" => (error = NoError /\ stdout = Printed(outFile))

\* C9: a run on a valid input goes through load, total revenue, best SKU,
\* build, write, print in this order and ends successfully: it never fails,
\* each step either moves to the next stage or takes one more row, and the
\* loop never runs past the rows (every stage's action has no guard but the
\* position, so the run goes on until it is done); the output file is written
\* once, after the three computations and the build, and what is printed is
\* the document written to the file (and a newline).
C9_ValidRunCompletes ==
    /\ [](C9_StagesInOrder
          /\ (ValidInput => (pc # "error" /\ i <= Len(rows))))
    /\ [][ValidInput =>
            /\ pc' # pc => <<pc, pc'>> \in StageOrder
            /\ pc' = pc => (pc = "load_rows" /\ i' = i + 1)]_vars

\* C9 witness: a run on a valid three-row input is done, the file written
\* once and echoed.
C9_Witness ==
    /\ pc = "done"
    /\ ValidInput
    /\ Len(rows) = 3
    /\ writes = 1
    /\ outFile # prior
    /\ stdout = outFile \o <<"\n">>

\* what the number texts of the inputs denote
ExpectedNumber(text) ==
    CASE text = <<"0">> -> Fin(0, 0)
      [] text = <<"3">> -> Fin(3, 0)
      [] text = <<"1", ".", "5">> -> Fin(15, -1)
      [] text = <<"2", ".", "0">> -> Fin(20, -1)
      [] text = <<"0", ".", "0", "0", "5">> -> Fin(5, -3)
      [] text = <<"1", ".", "0", "0">> -> Fin(100, -2)
      [] text = <<"1", "0", ".", "0", "0", "5">> -> Fin(10005, -3)
      [] text = InfinityText -> Inf(1)

\* what the sku texts of the inputs are once trimmed
ExpectedSku(text) ==
    CASE text = <<" ", "A", " ">> -> <<"A">>
      [] text = <<" ">> -> <<>>
      [] OTHER -> text

\* C10: the sequence load_orders returns has one record per data row, in row
\* order, the i-th made of the trimmed sku, the quantity and the price of the
\* i-th row and of nothing else; a header-only input gives the empty sequence.
C10_OneRecordPerRowInOrder ==
    /\ records # UnsetList =>
        /\ Len(records) = Len(rows)
        /\ \A k \in 1..Len(rows) :
            records[k] = [sku |-> ExpectedSku(rows[k][ColumnOf(sku)]),
                          quantity |-> ExpectedNumber(rows[k][ColumnOf(quantity)]),
                          price |-> ExpectedNumber(rows[k][ColumnOf(price)])]
    /\ pc = "load_rows" => Len(recs) = i
    /\ (HeaderOk /\ rows = <<>> /\ pc \notin {"start", "load_header", "load_rows"}) =>
        records = <<>>

\* C10 witness: two rows under the header price,note,sku,quantity, the note
\* column holding a text no number column would accept; the records are the
\* rows in order, the first with its sku trimmed.
C10_Witness ==
    /\ pc = "revenue"
    /\ fieldnames = <<price, note, sku, quantity>>
    /\ Len(rows) = 2
    /\ rows[1][2] \in BadNumberTexts
    /\ rows[1][3] = <<" ", "A", " ">>
    /\ records[1].sku = <<"A">>
    /\ records[2].sku = <<"B">>
    /\ records[1].quantity # records[2].quantity

====
